---- MODULE Spec2Model ----
\* Model of the OCPP schema compiler (crates/ocppx-types/build.rs):
\* generate_schemas_for_version, generate_schema, compile_object,
\* compile_enum and compile_property, together with the output file they
\* write.  Strings that the compiler transforms (titles, property names,
\* enum literals) are sequences of one-character strings; strings that are
\* only compared (formats, paths, primitive type names) are TLA+ strings.
EXTENDS Integers, Sequences, FiniteSets, TLC

\* ------------------------------------------------------------------------
\* Bounds
\* ------------------------------------------------------------------------

\* Largest number of directory entries in a multi-entry schema directory.
MaxFiles == 2

\* ------------------------------------------------------------------------
\* Option<T>, Vec<T> helpers
\* ------------------------------------------------------------------------

None == <<>>
Some(x) == <<x>>
IsSome(o) == Len(o) > 0
Unwrap(o) == o[1]

Range(s) == {s[i] : i \in 1..Len(s)}

RECURSIVE SeqsOver(_)
\* every ordering of the finite set S (an iteration order of a HashMap
\* whose keys, or whose values, are S)
SeqsOver(S) ==
    IF S = {} THEN {<<>>}
    ELSE UNION {{<<x>> \o t : t \in SeqsOver(S \ {x})} : x \in S}

\* ------------------------------------------------------------------------
\* Characters
\* ------------------------------------------------------------------------

LowerChars == {"a", "b", "s", "t"}
UpperChars == {"A", "B", "S", "T"}

to_uppercase(c) ==
    CASE c = "a" -> "A" [] c = "b" -> "B" [] c = "s" -> "S" [] c = "t" -> "T"
      [] OTHER -> c

to_lowercase(c) ==
    CASE c = "A" -> "a" [] c = "B" -> "b" [] c = "S" -> "s" [] c = "T" -> "t"
      [] OTHER -> c

is_uppercase(c) == c \in UpperChars

\* ------------------------------------------------------------------------
\* case::CaseExt
\* ------------------------------------------------------------------------

RECURSIVE SkipUnderscores(_)
SkipUnderscores(s) ==
    IF s # <<>> /\ Head(s) = "_" THEN SkipUnderscores(Tail(s)) ELSE s

RECURSIVE CamelFrom(_, _)
CamelFrom(s, at_new_word) ==
    IF s = <<>> THEN <<>>
    ELSE IF Head(s) = "_" THEN CamelFrom(Tail(s), TRUE)
    ELSE IF at_new_word THEN <<to_uppercase(Head(s))>> \o CamelFrom(Tail(s), FALSE)
    ELSE <<Head(s)>> \o CamelFrom(Tail(s), FALSE)

\* str::to_camel: leading underscores are skipped, every other underscore is
\* dropped and the character after it (and the first one) is upper-cased.
to_camel(s) == CamelFrom(SkipUnderscores(s), TRUE)

RECURSIVE SplitUnderscore(_, _)
\* s.split('_') without the empty pieces; cur is the piece being read
SplitUnderscore(s, cur) ==
    IF s = <<>> THEN (IF cur = <<>> THEN <<>> ELSE <<cur>>)
    ELSE IF Head(s) = "_"
         THEN (IF cur = <<>> THEN <<>> ELSE <<cur>>) \o SplitUnderscore(Tail(s), <<>>)
    ELSE SplitUnderscore(Tail(s), Append(cur, Head(s)))

RECURSIVE SnakeWords(_, _, _)
\* the words of one piece: a new word starts at an upper-case character
\* that follows a character that is not upper-case
SnakeWords(s, buf, last_upper) ==
    IF s = <<>> THEN <<buf>>
    ELSE LET ch == Head(s)
             brk == buf # <<>> /\ is_uppercase(ch) /\ ~last_upper
         IN  IF brk
             THEN <<buf>> \o SnakeWords(Tail(s), <<to_lowercase(ch)>>, is_uppercase(ch))
             ELSE SnakeWords(Tail(s), Append(buf, to_lowercase(ch)), is_uppercase(ch))

RECURSIVE Flatten(_)
Flatten(ss) == IF ss = <<>> THEN <<>> ELSE Head(ss) \o Flatten(Tail(ss))

RECURSIVE JoinUnderscore(_)
JoinUnderscore(ws) ==
    IF ws = <<>> THEN <<>>
    ELSE IF Len(ws) = 1 THEN ws[1]
    ELSE ws[1] \o <<"_">> \o JoinUnderscore(Tail(ws))

\* str::to_snake
to_snake(s) ==
    LET pieces == SplitUnderscore(s, <<>>)
        words == Flatten([i \in 1..Len(pieces) |-> SnakeWords(pieces[i], <<>>, FALSE)])
    IN  JoinUnderscore(words)

\* NOT_ID.replace_all(v, ""): the regex [^A-Za-z0-9]
NOT_ID_strip(v) == SelectSeq(v, LAMBDA c : c \in LowerChars \cup UpperChars)

\* ------------------------------------------------------------------------
\* Errors (enum Error) and generated definitions
\* ------------------------------------------------------------------------

\* One record shape for every variant of Error; the fields a variant does
\* not carry are empty.
Err(kind, name, ty, format, schema_path) ==
    [kind |-> kind, name |-> name, ty |-> ty, format |-> format,
     schema_path |-> schema_path]

NoError == Err("none", <<>>, "", "", "")

SchemasNotFound == Err("SchemasNotFound", <<>>, "", "", "")
CompiledSchemaCannotBeSaved == Err("CompiledSchemaCannotBeSaved", <<>>, "", "", "")
SchemaNotFound(schema_path) == Err("SchemaNotFound", <<>>, "", "", schema_path)
InvalidSchema(schema_path) == Err("InvalidSchema", <<>>, "", "", schema_path)
SchemaTypeNotSupported(ty, schema_path) ==
    Err("SchemaTypeNotSupported", <<>>, ty, "", schema_path)
SchemaPropertyTypeNotSupported(name, ty, schema_path) ==
    Err("SchemaPropertyTypeNotSupported", name, ty, "", schema_path)
SchemaPropertyFormatNotSupported(name, format, schema_path) ==
    Err("SchemaPropertyFormatNotSupported", name, "", format, schema_path)

\* A type reference as compile_property writes it: a primitive or a
\* generated name, possibly inside Vec<...>.
Prim(p) == [vec |-> FALSE, prim |-> p, name |-> <<>>]
Named(n) == [vec |-> FALSE, prim |-> "", name |-> n]
VecOf(t) == [t EXCEPT !.vec = TRUE]

\* The text compile_object stores for a struct: its name and its field
\* lines, in the order the fields were produced.
StructDef(struct_name, fields) ==
    [kind |-> "struct", name |-> struct_name, fields |-> fields, variants |-> <<>>]

\* The text compile_enum stores for an enum: its name and its member lines.
EnumDef(enum_name, variants) ==
    [kind |-> "enum", name |-> enum_name, fields |-> <<>>, variants |-> variants]

\* HashMap::insert: the value stored under an existing key is replaced.
Insert(compiled_schemas, name, def) ==
    [n \in (DOMAIN compiled_schemas) \cup {name} |->
        IF n = name THEN def ELSE compiled_schemas[n]]

EmptyMap == [n \in {} |-> NoError]

\* ------------------------------------------------------------------------
\* compile_enum, compile_property, compile_object, generate_schema
\* ------------------------------------------------------------------------

\* One member line: the sanitized identifier, and the serde rename when the
\* identifier differs from the literal.
Variant(variant) ==
    LET v == NOT_ID_strip(to_camel(variant))
    IN  [ident |-> v, rename |-> IF v # variant THEN Some(variant) ELSE None]

\* compile_enum without the insert into the collection.
compile_enum_NoInsert(enum_name, variants, compiled_schemas) ==
    [error |-> NoError, cs |-> compiled_schemas]

compile_enum(enum_name, variants, compiled_schemas) ==
    [error |-> NoError,
     cs |-> Insert(compiled_schemas, enum_name,
                   EnumDef(enum_name, [i \in 1..Len(variants) |-> Variant(variants[i])]))]

\* The validate(length(..)) annotation list of a property.
Annotations(property) ==
    LET min == property.min_length
        max == property.max_length
    IN  IF ~IsSome(min) /\ IsSome(max) THEN <<[min |-> Some(1), max |-> max]>>
        ELSE IF IsSome(min) /\ IsSome(max) THEN <<[min |-> min, max |-> max]>>
        ELSE IF IsSome(min) THEN <<[min |-> min, max |-> None]>>
        ELSE <<>>

RequiredOrEmpty(required) == IF IsSome(required) THEN Unwrap(required) ELSE <<>>

NoField == [annotations |-> <<>>, name |-> <<>>, ty |-> Prim(""), option |-> FALSE]

PropertyOk(property, raw_name, ty, cs) ==
    [error |-> NoError,
     field |-> [annotations |-> Annotations(property), name |-> to_snake(raw_name),
                ty |-> ty, option |-> FALSE],
     cs |-> cs]

PropertyErr(error, cs) == [error |-> error, field |-> NoField, cs |-> cs]

\* FieldLine with the two branches of the test on `required` exchanged.
FieldLine_Exchanged(field, raw_name, required) ==
    IF raw_name \in Range(required)
    THEN [field EXCEPT !.option = TRUE]
    ELSE [field EXCEPT !.option = FALSE]

\* The field line compile_object formats from what compile_property returned.
FieldLine(field, raw_name, required) ==
    IF raw_name \in Range(required)
    THEN [field EXCEPT !.option = FALSE]
    ELSE [field EXCEPT !.option = TRUE]

RECURSIVE compile_object(_, _, _, _, _)
RECURSIVE compile_property(_, _, _, _, _)
RECURSIVE CollectFields(_, _, _, _, _, _, _)

\* The String arm with `enum` looked at before `format`.
StringArm_EnumFirst(raw_name, property, schema_path, compiled_schemas) ==
    IF IsSome(property.enum)
    THEN LET enum_name == to_camel(raw_name)
             r == compile_enum(enum_name, Unwrap(property.enum), compiled_schemas)
         IN  {PropertyOk(property, raw_name, Named(enum_name), r.cs)}
    ELSE IF IsSome(property.format)
    THEN LET format == Unwrap(property.format)
         IN  IF format = "date-time"
             THEN {PropertyOk(property, raw_name,
                              Prim("chrono::DateTime<chrono::offset::Utc>"),
                              compiled_schemas)}
             ELSE IF format = "uri"
             THEN {PropertyOk(property, raw_name, Prim("url::Url"), compiled_schemas)}
             ELSE {PropertyErr(SchemaPropertyFormatNotSupported(
                                   raw_name, format, schema_path),
                               compiled_schemas)}
    ELSE {PropertyOk(property, raw_name, Prim("String"), compiled_schemas)}

\* The String arm: `format` is looked at first, `enum` only when there is
\* no format.
StringArm(raw_name, property, schema_path, compiled_schemas) ==
    IF IsSome(property.format)
    THEN LET format == Unwrap(property.format)
         IN  IF format = "date-time"
             THEN {PropertyOk(property, raw_name,
                              Prim("chrono::DateTime<chrono::offset::Utc>"),
                              compiled_schemas)}
             ELSE IF format = "uri"
             THEN {PropertyOk(property, raw_name, Prim("url::Url"), compiled_schemas)}
             ELSE {PropertyErr(SchemaPropertyFormatNotSupported(
                                   raw_name, format, schema_path),
                               compiled_schemas)}
    ELSE IF IsSome(property.enum)
    THEN LET enum_name == to_camel(raw_name)
             r == compile_enum(enum_name, Unwrap(property.enum), compiled_schemas)
         IN  {PropertyOk(property, raw_name, Named(enum_name), r.cs)}
    ELSE {PropertyOk(property, raw_name, Prim("String"), compiled_schemas)}

\* The Array arm: the match on `items`.
ArrayArm(raw_name, property, schema_path, compiled_schemas) ==
    IF IsSome(property.items) /\ Unwrap(property.items).ty = "Object"
       /\ IsSome(Unwrap(property.items).properties)
    THEN LET items == Unwrap(property.items)
             struct_name == to_camel(raw_name)
         IN  {IF r.error = NoError
              THEN PropertyOk(property, raw_name, VecOf(Named(struct_name)), r.cs)
              ELSE PropertyErr(r.error, r.cs) :
                r \in compile_object(struct_name, Unwrap(items.properties),
                                     RequiredOrEmpty(items.required),
                                     schema_path, compiled_schemas)}
    ELSE IF IsSome(property.items) /\ Unwrap(property.items).ty = "String"
    THEN {PropertyOk(property, raw_name, VecOf(Prim("String")), compiled_schemas)}
    ELSE {PropertyErr(SchemaPropertyTypeNotSupported(raw_name, "Array", schema_path),
                      compiled_schemas)}

\* The Object arm.
ObjectArm(raw_name, property, schema_path, compiled_schemas) ==
    IF IsSome(property.properties)
    THEN LET struct_name == to_camel(raw_name)
         IN  {IF r.error = NoError
              THEN PropertyOk(property, raw_name, Named(struct_name), r.cs)
              ELSE PropertyErr(r.error, r.cs) :
                r \in compile_object(struct_name, Unwrap(property.properties),
                                     RequiredOrEmpty(property.required),
                                     schema_path, compiled_schemas)}
    ELSE {PropertyErr(SchemaPropertyTypeNotSupported(raw_name, "Object", schema_path),
                      compiled_schemas)}

\* The set of results compile_property can return: one per iteration order
\* of the nested property maps it walks.  struct_name, the owner's name, is
\* a parameter the body never uses.
compile_property(struct_name, raw_name, property, schema_path, compiled_schemas) ==
    CASE property.ty = "Boolean" ->
           {PropertyOk(property, raw_name, Prim("bool"), compiled_schemas)}
      [] property.ty = "String" ->
           StringArm(raw_name, property, schema_path, compiled_schemas)
      [] property.ty \in {"Number", "Integer"} ->
           {PropertyOk(property, raw_name, Prim("i32"), compiled_schemas)}
      [] property.ty = "Array" ->
           ArrayArm(raw_name, property, schema_path, compiled_schemas)
      [] property.ty = "Object" ->
           ObjectArm(raw_name, property, schema_path, compiled_schemas)
      [] OTHER ->
           {PropertyErr(SchemaPropertyTypeNotSupported(raw_name, property.ty, schema_path),
                        compiled_schemas)}

\* properties.iter().map(..).collect::<Result<Vec<_>>>() along one iteration
\* order: the fields so far, stopping at the first error.
CollectFields(struct_name, order, properties, required, schema_path, compiled_schemas, fields) ==
    IF order = <<>>
    THEN {[error |-> NoError, fields |-> fields, cs |-> compiled_schemas]}
    ELSE LET raw_name == Head(order)
         IN  UNION {IF r.error = NoError
                    THEN CollectFields(struct_name, Tail(order), properties, required,
                                       schema_path, r.cs,
                                       Append(fields, FieldLine(r.field, raw_name, required)))
                    ELSE {[error |-> r.error, fields |-> fields, cs |-> r.cs]} :
                      r \in compile_property(struct_name, raw_name, properties[raw_name],
                                             schema_path, compiled_schemas)}

\* The set of results compile_object can return, over every iteration order
\* of `properties`.
compile_object(raw_name, properties, required, schema_path, compiled_schemas) ==
    LET struct_name == to_camel(raw_name)
    IN  {IF r.error = NoError
         THEN [error |-> NoError,
               cs |-> Insert(r.cs, struct_name, StructDef(struct_name, r.fields))]
         ELSE [error |-> r.error, cs |-> r.cs] :
           r \in UNION {CollectFields(struct_name, order, properties, required,
                                      schema_path, compiled_schemas, <<>>) :
                          order \in SeqsOver(DOMAIN properties)}}

generate_schema(schema_path, entry, compiled_schemas) ==
    IF entry.data = "unreadable"
    THEN {[error |-> SchemaNotFound(schema_path), cs |-> compiled_schemas]}
    ELSE IF entry.data = "invalid"
    THEN {[error |-> InvalidSchema(schema_path), cs |-> compiled_schemas]}
    ELSE LET schema == entry.schema
         IN  IF schema.ty = "Object"
             THEN compile_object(schema.title, schema.properties,
                                 RequiredOrEmpty(schema.required), schema_path,
                                 compiled_schemas)
             ELSE {[error |-> SchemaTypeNotSupported(schema.ty, schema_path),
                    cs |-> compiled_schemas]}

\* ------------------------------------------------------------------------
\* Schema documents (struct Schema, struct SchemaProperty)
\* ------------------------------------------------------------------------

\* A SchemaProperty with every optional member absent.  The members the
\* compiler never reads (pattern, the count bounds, additionalProperties)
\* are left out.
Property(ty) ==
    [ty |-> ty, enum |-> None, min_length |-> None, max_length |-> None,
     items |-> None, properties |-> None, required |-> None, format |-> None]

Schema(title, ty, properties, required) ==
    [title |-> title, ty |-> ty, properties |-> properties, required |-> required]

NoSchema == Schema(<<>>, "Null", EmptyMap, None)

\* A directory entry: whether it is a regular file, its extension, and what
\* reading and parsing it gives.
Entry(is_file, extension, data, schema) ==
    [is_file |-> is_file, extension |-> extension, data |-> data, schema |-> schema]

SchemaEntry(schema) == Entry(TRUE, "json", "schema", schema)

SchemaPropertyType == {"Null", "Boolean", "Object", "Array", "Number", "String", "Integer"}

\* ------------------------------------------------------------------------
\* The bounded input universe
\* ------------------------------------------------------------------------

\* Most members of an enum list.
MaxVariants == 2

Titles == {<<"a">>, <<"b">>}
RichTitles == {<<"a">>, <<"s">>}
TopNames == {<<"s">>, <<"t">>, <<"_", "s">>}
NestedNames == {<<"s">>, <<"t">>}
Formats == {"date-time", "uri", "email"}
Literals == {<<"a">>, <<"A">>, <<"a", ".", "b">>, <<"A", "b">>}
Paths == <<"a.json", "b.json", "c.json", "d.json">>

RECURSIVE SeqsUpTo(_, _)
\* the sequences over S of length at most n
SeqsUpTo(S, n) ==
    IF n = 0 THEN {<<>>}
    ELSE LET shorter == SeqsUpTo(S, n - 1)
         IN  shorter \cup {Append(q, x) : q \in shorter, x \in S}

EnumLists == SeqsUpTo(Literals, MaxVariants)

\* the maps from a set of exactly n of the names to the nodes
MapsOver(names, nodes, n) ==
    UNION {[D -> nodes] : D \in {D \in SUBSET names : Cardinality(D) = n}}

StringNodes ==
    {[Property("String") EXCEPT !.format = f, !.enum = e] :
        f \in {None} \cup {Some(x) : x \in Formats},
        e \in {None} \cup {Some(x) : x \in EnumLists}}
    \cup {[Property("String") EXCEPT !.min_length = mn, !.max_length = mx] :
        mn \in {None, Some(1)}, mx \in {None, Some(2)}}

BareNodes == {Property(ty) : ty \in SchemaPropertyType}

\* the nodes used below the first level and in directories of several files
SmallNodes ==
    { Property("Boolean"),
      [Property("String") EXCEPT !.format = Some("email")],
      [Property("String") EXCEPT !.enum = Some(<< <<"a">>, <<"A">> >>)],
      [Property("String") EXCEPT !.enum = Some(<< <<"a", ".", "b">> >>)],
      [Property("Object") EXCEPT !.properties = Some([n \in {<<"t">>} |-> Property("Boolean")])],
      [Property("Object") EXCEPT !.properties = Some([n \in {<<"t">>} |-> Property("Null")]),
                                 !.required = Some(<< <<"t">> >>)] }

\* the nodes of the nested maps of two properties
TinyNodes ==
    { Property("Boolean"),
      [Property("String") EXCEPT !.enum = Some(<< <<"a">>, <<"A">> >>)],
      [Property("Object") EXCEPT !.properties = Some([n \in {<<"t">>} |-> Property("Null")]),
                                 !.required = Some(<< <<"t">> >>)] }

NestedMaps == MapsOver(NestedNames, SmallNodes, 1) \cup MapsOver(NestedNames, TinyNodes, 2)

ObjectNodes ==
    {[Property("Object") EXCEPT !.properties = Some(m), !.required = r] :
        m \in NestedMaps, r \in {None, Some(<< <<"s">> >>)}}

ItemNodes ==
    BareNodes \cup SmallNodes \cup ObjectNodes
    \cup {[Property("Array") EXCEPT !.items = Some(Property("String"))]}

ArrayNodes == {[Property("Array") EXCEPT !.items = Some(i)] : i \in ItemNodes}

RichNodes == BareNodes \cup StringNodes \cup ObjectNodes \cup ArrayNodes

\* the schemas of a directory holding a single file
RichSchemas ==
    {Schema(title, "Object", m, r) :
        title \in RichTitles, m \in MapsOver({<<"s">>, <<"_", "s">>}, RichNodes, 1),
        r \in {None, Some(<< <<"s">> >>)}}
    \cup {Schema(title, "Object", m, r) :
        title \in RichTitles, m \in MapsOver(TopNames, SmallNodes, 2),
        r \in {None, Some(<< <<"s">> >>), Some(<< <<"t">>, <<"s">> >>)}}

\* the nodes of the schemas of a directory holding several files
DirNodes ==
    {n \in SmallNodes : ~IsSome(n.enum) \/ Len(Unwrap(n.enum)) > 1}

\* the entries of a directory holding several
SmallEntries ==
    { Entry(TRUE, "json", "unreadable", NoSchema),
      Entry(TRUE, "json", "invalid", NoSchema),
      Entry(TRUE, "txt", "schema", NoSchema) }
    \cup {SchemaEntry(Schema(title, "Object", m, None)) :
            title \in Titles, m \in MapsOver({<<"s">>}, DirNodes, 1)}

\* the entries of a directory holding one
RichEntries ==
    {SchemaEntry(s) : s \in RichSchemas}
    \cup {SchemaEntry(Schema(<<"a">>, ty, EmptyMap, None)) : ty \in SchemaPropertyType}
    \cup {Entry(is_file, extension, data, NoSchema) :
            is_file \in BOOLEAN, extension \in {"json", "txt"},
            data \in {"unreadable", "invalid"}}

Directories ==
    UNION {[{Paths[i] : i \in 1..n} -> SmallEntries] : n \in 0..MaxFiles}
    \cup {[p \in {Paths[1]} |-> e] : e \in RichEntries}

\* ------------------------------------------------------------------------
\* State
\* ------------------------------------------------------------------------

VARIABLES
    dir,               \* schemas/<version>: path -> entry (the input, never written)
    pc,                \* where generate_schemas_for_version is
    pending,           \* entries read_dir has not yielded yet
    compiled_schemas,  \* HashMap<String, String>: name -> definition
    result,            \* what the run returned (NoError: Ok(()))
    reported,          \* cargo:rustc-env=OCPPX_TYPES_SCHEMA_..=<path> was printed
    outfile,           \* OUT_DIR/<version>.rs
    prior              \* the output file as the run found it

vars == <<dir, pc, pending, compiled_schemas, result, reported, outfile, prior>>

\* The file does not exist / holds these chunks of text.
Absent == [exists |-> FALSE, chunks |-> <<>>]
File(chunks) == [exists |-> TRUE, chunks |-> chunks]

\* "use serde::{Serialize, Deserialize};\n\n"
Header == [kind |-> "header", name |-> <<>>, fields |-> <<>>, variants |-> <<>>]

\* The texts format!(.. compiled_schemas.values() .. join("\n\n")) can give:
\* the header, then the definitions in an iteration order of the map.
Units(cs) == {<<Header>> \o order : order \in SeqsOver({cs[n] : n \in DOMAIN cs})}

Init ==
    /\ dir \in Directories
    /\ pc = "read_dir"
    /\ pending = {}
    /\ compiled_schemas = EmptyMap
    /\ result = NoError
    /\ reported = FALSE
    /\ outfile = Absent
    /\ prior = Absent

\* ------------------------------------------------------------------------
\* generate_schemas_for_version, step by step
\* ------------------------------------------------------------------------

Return(error) ==
    /\ pc' = "done"
    /\ result' = error

\* fs::read_dir(..).map_err(Error::SchemasNotFound)? and the filter_map that
\* keeps the regular files whose extension is json
ReadDir ==
    /\ pc = "read_dir"
    /\ \/ /\ pending' = {p \in DOMAIN dir : dir[p].is_file /\ dir[p].extension = "json"}
          /\ pc' = "compile"
          /\ UNCHANGED result
       \/ /\ Return(SchemasNotFound)
          /\ UNCHANGED pending
    /\ UNCHANGED <<dir, compiled_schemas, reported, outfile, prior>>

\* The loop without the `?`: a schema that fails is skipped.
GenerateSchema_ErrorsSkipped ==
    /\ pc = "compile"
    /\ \E schema_path \in pending :
         \E r \in generate_schema(schema_path, dir[schema_path], compiled_schemas) :
            /\ compiled_schemas' = r.cs
            /\ pending' = pending \ {schema_path}
    /\ UNCHANGED <<dir, pc, result, reported, outfile, prior>>

\* one turn of the loop: generate_schema(schema, &mut compiled_schemas)?
GenerateSchema ==
    /\ pc = "compile"
    /\ \E schema_path \in pending :
         \E r \in generate_schema(schema_path, dir[schema_path], compiled_schemas) :
            /\ compiled_schemas' = r.cs
            /\ pending' = pending \ {schema_path}
            /\ IF r.error = NoError
               THEN UNCHANGED <<pc, result>>
               ELSE Return(r.error)
    /\ UNCHANGED <<dir, reported, outfile, prior>>

\* OpenOptions::new().create(true).write(true).truncate(true).open(..)
OpenOutput ==
    /\ pc = "compile"
    /\ pending = {}
    /\ \/ /\ outfile' = File(<<>>)
          /\ pc' = "write"
          /\ UNCHANGED result
       \/ /\ Return(CompiledSchemaCannotBeSaved)
          /\ UNCHANGED outfile
    /\ UNCHANGED <<dir, pending, compiled_schemas, reported, prior>>

\* file.write_all(..).map_err(Error::CompiledSchemaCannotBeSaved)?, then the
\* println! of the output path and Ok(())
WriteOutput ==
    /\ pc = "write"
    /\ \E unit \in Units(compiled_schemas) :
         \/ /\ outfile' = File(unit)
            /\ reported' = TRUE
            /\ Return(NoError)
         \/ /\ \E k \in 0..(Len(unit) - 1) : outfile' = File(SubSeq(unit, 1, k))
            /\ Return(CompiledSchemaCannotBeSaved)
            /\ UNCHANGED reported
    /\ UNCHANGED <<dir, pending, compiled_schemas, prior>>

\* After a build that succeeded, the build script is run again over the
\* unchanged directory; the file the first run wrote is what the second
\* finds.  (The compiler never reads the output file, so a run after a
\* failed one behaves as the first run does.)
Rerun ==
    /\ pc = "done"
    /\ result = NoError
    /\ pc' = "read_dir"
    /\ pending' = {}
    /\ compiled_schemas' = EmptyMap
    /\ result' = NoError
    /\ reported' = FALSE
    /\ prior' = outfile
    /\ UNCHANGED <<dir, outfile>>

Next == ReadDir \/ GenerateSchema \/ OpenOutput \/ WriteOutput \/ Rerun

Spec == Init /\ [][Next]_vars

\* ------------------------------------------------------------------------
\* What the input holds (used to state the properties)
\* ------------------------------------------------------------------------

\* The entries generate_schema is called on.
SchemaFiles == {p \in DOMAIN dir : dir[p].is_file /\ dir[p].extension = "json"}

\* Those that parse into a Schema whose type is Object.
ObjectFiles ==
    {p \in SchemaFiles : dir[p].data = "schema" /\ dir[p].schema.ty = "Object"}

RECURSIVE ObjectsIn(_, _, _)
\* The objects compile_object is called on when it is given this one: the
\* object itself and, below it, every Object property that has `properties`
\* and every Array property whose items are such an object.
ObjectsIn(raw_name, properties, required) ==
    {[raw_name |-> raw_name, properties |-> properties, required |-> required]}
    \cup UNION {
        LET property == properties[n]
            inner == IF property.ty = "Array" /\ IsSome(property.items)
                     THEN Unwrap(property.items) ELSE property
        IN  IF property.ty \in {"Object", "Array"} /\ inner.ty = "Object"
               /\ IsSome(inner.properties)
            THEN ObjectsIn(to_camel(n), Unwrap(inner.properties),
                           RequiredOrEmpty(inner.required))
            ELSE {} : n \in DOMAIN properties}

ObjectsOf(path) ==
    LET schema == dir[path].schema
    IN  ObjectsIn(schema.title, schema.properties, RequiredOrEmpty(schema.required))

\* The properties compile_property is called on for this file, each with
\* its raw name and the struct name of its owner.
PropertiesOf(path) ==
    UNION {{[owner |-> to_camel(o.raw_name), raw_name |-> n, property |-> o.properties[n]] :
              n \in DOMAIN o.properties} : o \in ObjectsOf(path)}

Succeeded == pc = "done" /\ result = NoError

CompileErrors ==
    {"SchemaNotFound", "InvalidSchema", "SchemaTypeNotSupported",
     "SchemaPropertyTypeNotSupported", "SchemaPropertyFormatNotSupported"}

\* ------------------------------------------------------------------------
\* C1
\* ------------------------------------------------------------------------

\* The struct has one field per property of the object, and the field of
\* property p is bare when p is in `required` and Option<..> otherwise.
FieldsFollowRequired(def, o) ==
    /\ def.kind = "struct"
    /\ \E order \in SeqsOver(DOMAIN o.properties) :
         /\ Len(def.fields) = Len(order)
         /\ \A i \in 1..Len(order) :
              /\ def.fields[i].name = to_snake(order[i])
              /\ def.fields[i].option = (order[i] \notin Range(o.required))

\* C1: for every object compile_object is called on (a top-level schema or
\* a nested object or array-of-object property), under every iteration
\* order of its property map, the struct it registers has a bare field for
\* each property named in that object's own `required` list and an
\* Option<..> field for every other property; and every struct in the
\* definition collection is such a struct of an object of the input.
C1_RequiredFidelity ==
    /\ pc = "compile" =>
         \A path \in pending \cap ObjectFiles : \A o \in ObjectsOf(path) :
           \A r \in compile_object(o.raw_name, o.properties, o.required, path,
                                   compiled_schemas) :
              r.error = NoError => FieldsFollowRequired(r.cs[to_camel(o.raw_name)], o)
    /\ \A n \in DOMAIN compiled_schemas :
         compiled_schemas[n].kind = "struct" =>
           \E path \in ObjectFiles : \E o \in ObjectsOf(path) :
              /\ to_camel(o.raw_name) = n
              /\ FieldsFollowRequired(compiled_schemas[n], o)

\* A schema with two properties, one of them required, was compiled, and so
\* was a nested object with a required property.
C1_Witness ==
    /\ Succeeded
    /\ \E n \in DOMAIN compiled_schemas :
         LET d == compiled_schemas[n]
         IN  /\ d.kind = "struct"
             /\ Len(d.fields) = 2
             /\ d.fields[1].option # d.fields[2].option
             /\ \E i \in 1..2 : d.fields[i].ty.name \in DOMAIN compiled_schemas

\* ------------------------------------------------------------------------
\* C3
\* ------------------------------------------------------------------------

\* the definitions written to the output file
Emitted == SelectSeq(outfile.chunks, LAMBDA c : c.kind # "header")

\* C3: after a successful run, every struct or enum name that a field of an
\* emitted definition refers to (bare, in Option<..> or in Vec<..>) is the
\* name of exactly one emitted definition, and no name is emitted twice.
C3_ReferencesResolve ==
    Succeeded =>
      /\ \A i \in 1..Len(Emitted) : \A j \in 1..Len(Emitted[i].fields) :
           LET ty == Emitted[i].fields[j].ty
           IN  ty.prim = "" =>
                 Cardinality({k \in 1..Len(Emitted) : Emitted[k].name = ty.name}) = 1
      /\ \A i, k \in 1..Len(Emitted) : Emitted[i].name = Emitted[k].name => i = k

\* A successful run wrote a struct with a field that refers to a generated
\* enum and one with a field that refers to a generated struct in a Vec.
C3_Witness ==
    /\ Succeeded
    /\ \E i, k \in 1..Len(Emitted) : \E j \in 1..Len(Emitted[i].fields) :
         /\ Emitted[i].fields[j].ty.name = Emitted[k].name
         /\ Emitted[k].kind = "enum"
    /\ \E i, k \in 1..Len(Emitted) : \E j \in 1..Len(Emitted[i].fields) :
         /\ Emitted[i].fields[j].ty.name = Emitted[k].name
         /\ Emitted[i].fields[j].ty.vec
         /\ Emitted[k].kind = "struct"

\* ------------------------------------------------------------------------
\* C4
\* ------------------------------------------------------------------------

\* generate_schema fails on this entry (whatever has been compiled before).
FailsToCompile(path) ==
    \A r \in generate_schema(path, dir[path], EmptyMap) : r.error # NoError

\* C4: the output file is opened or written, the output path reported, or
\* the run ended otherwise than with a compile error (or SchemasNotFound),
\* only when no schema file of the directory fails to compile (unreadable,
\* invalid JSON, unsupported top-level type, unsupported property type or
\* format at any depth); and whenever a run ends with a compile error the
\* output file is as the run found it and the path was not reported.
C4_NoPartialOutput ==
    /\ (\/ outfile # prior
        \/ reported
        \/ pc = "write"
        \/ pc = "done" /\ result.kind \notin CompileErrors \cup {"SchemasNotFound"})
         => \A path \in SchemaFiles : ~FailsToCompile(path)
    /\ (pc = "done" /\ result.kind \in CompileErrors) =>
         /\ outfile = prior
         /\ ~reported

\* A run failed on a property below the first level of one file after it
\* had compiled another file.
C4_Witness ==
    /\ pc = "done"
    /\ result.kind = "SchemaPropertyTypeNotSupported"
    /\ result.name \notin DOMAIN dir[result.schema_path].schema.properties
    /\ \E path \in ObjectFiles \ pending :
         /\ path # result.schema_path
         /\ to_camel(dir[path].schema.title) \in DOMAIN compiled_schemas

\* ------------------------------------------------------------------------
\* C2
\* ------------------------------------------------------------------------

\* A property that compile_property turns into a nested struct or enum.
IsNested(property) ==
    \/ property.ty = "Object" /\ IsSome(property.properties)
    \/ property.ty = "String" /\ ~IsSome(property.format) /\ IsSome(property.enum)

\* the type reference of the field that struct `owner` has for raw_name
FieldRefs(owner, raw_name) ==
    {compiled_schemas[owner].fields[i].ty.name :
        i \in {i \in 1..Len(compiled_schemas[owner].fields) :
                 compiled_schemas[owner].fields[i].name = to_snake(raw_name)}}

\* C2: after a successful run over two schemas with different titles that
\* each have a nested object (or string-enum) property of the same raw
\* name, the two owners' fields refer to two distinctly named definitions,
\* both registered.
C2_NestedNamesByOwner ==
    Succeeded =>
      \A p, q \in ObjectFiles :
        LET P == dir[p].schema
            Q == dir[q].schema
        IN  to_camel(P.title) # to_camel(Q.title) =>
              \A n \in (DOMAIN P.properties) \cap (DOMAIN Q.properties) :
                 (IsNested(P.properties[n]) /\ IsNested(Q.properties[n])) =>
                    \E a \in FieldRefs(to_camel(P.title), n) :
                      \E b \in FieldRefs(to_camel(Q.title), n) :
                         /\ a # b
                         /\ {a, b} \subseteq DOMAIN compiled_schemas

\* ------------------------------------------------------------------------
\* C5
\* ------------------------------------------------------------------------

\* C5: a run that succeeds over the directory an earlier successful run
\* compiled writes the very text that run wrote (same definitions, same
\* definition order, same field order).
C5_Deterministic == (Succeeded /\ prior.exists) => outfile = prior

\* ------------------------------------------------------------------------
\* C6
\* ------------------------------------------------------------------------

\* the literal a member line stands for
LiteralOf(variant) ==
    IF IsSome(variant.rename) THEN Unwrap(variant.rename) ELSE variant.ident

\* C6: no enum is ever registered in which two distinct literals have the
\* same member identifier.
C6_EnumMembersInjective ==
    \A n \in DOMAIN compiled_schemas :
       LET vs == compiled_schemas[n].variants
       IN  \A i, j \in 1..Len(vs) :
              LiteralOf(vs[i]) # LiteralOf(vs[j]) => vs[i].ident # vs[j].ident

\* ------------------------------------------------------------------------
\* C7
\* ------------------------------------------------------------------------

\* Two definitions have the same shape: the same kind, name and members,
\* and the same fields in some order.
SameShape(d, e) ==
    /\ d.kind = e.kind
    /\ d.name = e.name
    /\ d.variants = e.variants
    /\ Len(d.fields) = Len(e.fields)
    /\ Range(d.fields) = Range(e.fields)

\* C7: a step of a run that goes on never replaces a definition of the
\* collection by one of another shape: when the definition under a name
\* changes shape, the run ends with an error.
C7_NoSilentReplacement ==
    [][\A n \in (DOMAIN compiled_schemas) \cap (DOMAIN compiled_schemas') :
          ~SameShape(compiled_schemas[n], compiled_schemas'[n])
             => (pc' = "done" /\ result' # NoError)]_vars

\* ------------------------------------------------------------------------
\* C9
\* ------------------------------------------------------------------------

\* C9: the output file always holds either what the run found in it or a
\* complete compilation unit of the definitions compiled.
C9_AtomicWrite ==
    \/ outfile = prior
    \/ outfile.exists /\ outfile.chunks \in Units(compiled_schemas)

\* ------------------------------------------------------------------------
\* C8
\* ------------------------------------------------------------------------

KnownFormats == {"date-time", "uri"}

\* A String property whose format has no mapping.
HasUnknownFormat(property) ==
    /\ property.ty = "String"
    /\ IsSome(property.format)
    /\ Unwrap(property.format) \notin KnownFormats

\* What the String arm has to return for this property, whatever `enum` is
\* when a format is set.
StringArmAsSpecified(pr, path, r) ==
    LET property == pr.property
        enum_name == to_camel(pr.raw_name)
    IN  IF IsSome(property.format)
        THEN /\ r.cs = compiled_schemas
             /\ CASE Unwrap(property.format) = "date-time" ->
                       /\ r.error = NoError
                       /\ r.field.ty = Prim("chrono::DateTime<chrono::offset::Utc>")
                  [] Unwrap(property.format) = "uri" ->
                       /\ r.error = NoError
                       /\ r.field.ty = Prim("url::Url")
                  [] OTHER ->
                       r.error = SchemaPropertyFormatNotSupported(
                                     pr.raw_name, Unwrap(property.format), path)
        ELSE IF IsSome(property.enum)
        THEN /\ r.error = NoError
             /\ r.field.ty = Named(enum_name)
             /\ enum_name \in DOMAIN r.cs
             /\ r.cs[enum_name].kind = "enum"
             /\ Len(r.cs[enum_name].variants) = Len(Unwrap(property.enum))
        ELSE /\ r.error = NoError
             /\ r.field.ty = Prim("String")
             /\ r.cs = compiled_schemas

\* C8: for every String property of a file about to be compiled,
\* compile_property looks at `format` before `enum`: date-time gives the
\* timestamp type, uri the URI type, any other format the error
\* SchemaPropertyFormatNotSupported with the property's raw name, the format
\* and the file's path, with or without `enum` and without registering an
\* enum; without a format an enum is registered when `enum` is set and the
\* string primitive used otherwise.  A run that ends with that error names
\* such a property of that file, and the output file is opened or written,
\* its path reported or the run successful only when the directory holds no
\* such property.
C8_FormatBeforeEnum ==
    /\ pc = "compile" =>
         \A path \in pending \cap ObjectFiles :
           \A pr \in {x \in PropertiesOf(path) : x.property.ty = "String"} :
             \A r \in compile_property(pr.owner, pr.raw_name, pr.property, path,
                                       compiled_schemas) :
                StringArmAsSpecified(pr, path, r)
    /\ (pc = "done" /\ result.kind = "SchemaPropertyFormatNotSupported") =>
         /\ result.schema_path \in ObjectFiles
         /\ \E pr \in PropertiesOf(result.schema_path) :
              /\ pr.raw_name = result.name
              /\ HasUnknownFormat(pr.property)
              /\ pr.property.format = Some(result.format)
    /\ (outfile # prior \/ reported \/ Succeeded) =>
         \A path \in ObjectFiles : \A pr \in PropertiesOf(path) :
            ~HasUnknownFormat(pr.property)

\* A run ended with the format error for a property that also sets `enum`,
\* and the collection holds no definition under that property's name.
C8_Witness ==
    /\ pc = "done"
    /\ result.kind = "SchemaPropertyFormatNotSupported"
    /\ result.format = "email"
    /\ \E pr \in PropertiesOf(result.schema_path) :
         /\ pr.raw_name = result.name
         /\ IsSome(pr.property.enum)
    /\ to_camel(result.name) \notin DOMAIN compiled_schemas

\* ------------------------------------------------------------------------
\* C10
\* ------------------------------------------------------------------------

\* What the claim says the Array arm returns for this property.
ArrayArmAsClaimed(pr, path, r) ==
    LET items == pr.property.items
        unsupported == SchemaPropertyTypeNotSupported(pr.raw_name, "Array", path)
    IN  IF IsSome(items) /\ Unwrap(items).ty = "Object"
           /\ IsSome(Unwrap(items).properties)
        THEN /\ r.error # unsupported
             /\ r.error = NoError =>
                  /\ r.field.ty = VecOf(Named(to_camel(pr.raw_name)))
                  /\ to_camel(pr.raw_name) \in DOMAIN r.cs
        ELSE IF IsSome(items) /\ Unwrap(items).ty = "String"
                /\ ~IsSome(Unwrap(items).enum)
        THEN /\ r.error = NoError
             /\ r.field.ty = VecOf(Prim("String"))
        ELSE r.error = unsupported

\* C10: for every Array property of a file about to be compiled,
\* compile_property returns a sequence-of-struct reference when `items` is
\* an Object with `properties`, sequence-of-string when `items` is a String
\* without an `enum`, and SchemaPropertyTypeNotSupported for every other
\* items shape, a String with an `enum` included.
C10_ArrayItems ==
    pc = "compile" =>
      \A path \in pending \cap ObjectFiles :
        \A pr \in {x \in PropertiesOf(path) : x.property.ty = "Array"} :
          \A r \in compile_property(pr.owner, pr.raw_name, pr.property, path,
                                    compiled_schemas) :
             ArrayArmAsClaimed(pr, path, r)

====
